---- MODULE Spec2Model ----
(***************************************************************************)
(* Track acquisition pipeline of the music downloader bot (src/main.py).   *)
(*                                                                         *)
(* Every inbound update is handled by one coroutine (download_command,     *)
(* spotify_command or handle_message).  Handlers run on one event loop:    *)
(* a handler gives the loop away only at an `await` of a transport call    *)
(* (reply_text, edit_text, reply_photo, reply_audio); everything between   *)
(* two such awaits, the synchronous library calls included                 *)
(* (spotify.track, YoutubeDL.extract_info, eyed3, requests.get,            *)
(* os.remove), runs with the loop held.  `running` is the request holding  *)
(* the loop, 0 when the loop is free.  Handlers are scheduled as           *)
(* independent tasks (spec section 5); the schedule that runs them one     *)
(* after the other is one of the behaviours.                               *)
(***************************************************************************)
EXTENDS Integers, Sequences, FiniteSets, TLC

\* Number of requests (updates) handled in one run.
NumReq == 2

Reqs == 1..NumReq

NoReq == 0

(***************************************************************************)
(* Words of a message.  A word is a sequence of tokens; the substring      *)
(* tests of the handlers are tests for a contiguous run of tokens.         *)
(***************************************************************************)
IsSubSeq(sub, w) ==
    \E i \in 1..(Len(w) - Len(sub) + 1) : SubSeq(w, i, i + Len(sub) - 1) = sub

\* "youtube.com" in url or "youtu.be" in url
HasYoutube(w) == IsSubSeq(<<"youtube.com">>, w) \/ IsSubSeq(<<"youtu.be">>, w)

\* "spotify.com" in url
HasSpotify(w) == IsSubSeq(<<"spotify.com">>, w)

\* "spotify.com/track" in word
HasSpotifyTrack(w) == IsSubSeq(<<"spotify.com", "/track">>, w)

\* "/track/" in url
HasTrackSegment(w) == IsSubSeq(<<"/track", "/">>, w)

WordYoutube == <<"youtu.be", "/", "id">>

WordTrack == <<"spotify.com", "/track", "/", "id", "?", "x">>

WordAlbum == <<"spotify.com", "/", "album", "/", "id">>

WordTrackNoSlash == <<"spotify.com", "/track">>

WordPlain == <<"hello">>

Words == {WordYoutube, WordTrack, WordAlbum, WordTrackNoSlash, WordPlain}

NoUrl == <<>>

\* context.args of a command: no argument, or one word.
ArgLists == {<<>>} \cup {<<w>> : w \in Words}

\* update.message.text.split(): up to two words.
Texts == {<<w>> : w \in Words} \cup {<<v, w>> : v \in Words, w \in Words}

\* Positions where sub occurs in w.
Occurs(sub, w) ==
    {i \in 1..(Len(w) - Len(sub) + 1) : SubSeq(w, i, i + Len(sub) - 1) = sub}

\* w.split(sub)[0]: what precedes the first occurrence of sub.
Before(w, sub) ==
    IF Occurs(sub, w) = {}
    THEN w
    ELSE SubSeq(w, 1, (CHOOSE i \in Occurs(sub, w) :
                          \A j \in Occurs(sub, w) : i <= j) - 1)

\* What follows the first occurrence of sub in w.
After(w, sub) ==
    SubSeq(w, (CHOOSE i \in Occurs(sub, w) :
                  \A j \in Occurs(sub, w) : i <= j) + Len(sub), Len(w))

TrackMarker == <<"/track", "/">>

\* track_id = url.split("/track/")[1].split("?")[0]
TrackId(u) == Before(Before(After(u, TrackMarker), TrackMarker), <<"?">>)

\* Catalog urls base + "/track/" + id + tail.
Bases == {<<"spotify.com">>, <<"open", "spotify.com", "/", "intl">>}

Ids == {<<"id">>, <<"id2">>}

QueryTail == <<"?", "x">>

Tails == {<<>>, QueryTail, <<"/", "more">>, <<"/", "more", "?", "x">>}

TrackUrls == [base : Bases, id : Ids, tail : Tails]

BuildUrl(t) == t.base \o TrackMarker \o t.id \o t.tail

(***************************************************************************)
(* Titles and file paths.                                                  *)
(***************************************************************************)
\* info['title'] of a retrieved video; the second one holds a path separator.
MediaTitles == {"song", "ac/dc"}

\* track_info["name"] of the catalog record.
MetaTitles == {"Song"}

\* The file name yt-dlp writes for outtmpl '%(title)s.%(ext)s': a path
\* separator inside the title field is replaced, the directory and the
\* extension are fixed.
Sanitize(t) == IF t = "ac/dc" THEN "ac_dc" ELSE t

\* outtmpl of ydl_opts: the path the extraction engine writes.
OutPath(t) == Sanitize(t)

\* file_path = f"{DOWNLOAD_DIR}/{title}.mp3": the path the handler opens,
\* tags and removes.
FilePath(t) == t

Paths == {OutPath(t) : t \in MediaTitles} \cup {FilePath(t) : t \in MediaTitles}

NoPath == "-"

NoTitle == "-"

NoMeta == [title |-> NoTitle, cover |-> FALSE]

\* metadata dict built by get_spotify_info: title and cover_url (present or None).
Metas == [title : MetaTitles, cover : BOOLEAN]

(***************************************************************************)
(* Texts shown to the user.                                                *)
(***************************************************************************)
Txt(k) == [k |-> k, t |-> NoTitle]

TxtTitle(k, t) == [k |-> k, t |-> t]

NoCalls == [lookup |-> 0, search |-> 0, extract |-> 0, tag |-> 0, cover |-> 0]

NoEvents == [metaErr |-> FALSE, searchErr |-> FALSE, searchEmpty |-> FALSE,
             extractErr |-> FALSE, tagErr |-> FALSE, xportErr |-> FALSE,
             openErr |-> FALSE, removeErr |-> FALSE]

VARIABLES
    pc,         \* position of each request's handler
    running,    \* the request holding the event loop, NoReq when free
    url,        \* the url argument of the pipeline entry
    meta,       \* metadata passed to download_from_youtube (NoMeta: None)
    title,      \* info['title'] returned by the retrieval
    status,     \* status messages created by the request, with current text
    replies,    \* other text messages sent by reply_text
    photos,     \* number of photo messages sent
    audios,     \* audio attachments sent: display title and file content
    files,      \* download directory: path -> request whose retrieval wrote it
    wrote,      \* path written by the request's retrieval
    opened,     \* content of the file opened for the audio send
    calls,      \* external calls made by the request
    events,     \* what happened to the request
    outcome,    \* terminal state of the request
    flow,       \* the flow the request was classified into
    text,       \* a message text given to the classifier
    locator,    \* what the classifier made of text
    turl,       \* a catalog url given to the identifier extraction
    track_id    \* the identifier extracted from turl

vars == <<pc, running, url, meta, title, status, replies, photos, audios,
          files, wrote, opened, calls, events, outcome, flow, text, locator,
          turl, track_id>>

\* The inputs and results of the functions checked on their own.
pure == <<text, locator, turl, track_id>>

NoLocator == [p |-> "new", u |-> NoUrl]

NoTrackUrl == [base |-> <<>>, id |-> <<>>, tail |-> <<>>]

NoTrackId == <<"-">>

\* No update handled yet.
InitRequests ==
    /\ pc = [r \in Reqs |-> "new"]
    /\ running = NoReq
    /\ url = [r \in Reqs |-> NoUrl]
    /\ meta = [r \in Reqs |-> NoMeta]
    /\ title = [r \in Reqs |-> NoTitle]
    /\ status = [r \in Reqs |-> <<>>]
    /\ replies = [r \in Reqs |-> <<>>]
    /\ photos = [r \in Reqs |-> 0]
    /\ audios = [r \in Reqs |-> <<>>]
    /\ files = [p \in Paths |-> NoReq]
    /\ wrote = [r \in Reqs |-> NoPath]
    /\ opened = [r \in Reqs |-> NoReq]
    /\ calls = [r \in Reqs |-> NoCalls]
    /\ events = [r \in Reqs |-> NoEvents]
    /\ outcome = [r \in Reqs |-> "NONE"]
    /\ flow = [r \in Reqs |-> "NONE"]

Init ==
    /\ InitRequests
    /\ text = <<>>
    /\ locator = NoLocator
    /\ turl = NoTrackUrl
    /\ track_id = NoTrackId

(***************************************************************************)
(* Positions.  At an await position the handler waits for a transport      *)
(* call and the loop is free; at a sync position it is inside a            *)
(* synchronous library call and holds the loop.                            *)
(***************************************************************************)
UsagePcs == {"dc_reply_nourl", "dc_reply_invalid", "sc_reply_nourl",
             "sc_reply_invalid", "hm_reply_hint"}

AwaitPcs == UsagePcs \cup
            {"dl_status", "dl_edit_ok", "dl_send", "dl_edit_err",
             "sp_status", "sp_photo", "sp_edit_info", "sp_edit_invalid",
             "sp_edit_err", "sr_reply_nomatch", "sr_reply_err"}

\* spotify.track, extract_info(download=False), extract_info(download=True),
\* requests.get: the long-running external calls.
LongCallPcs == {"in_lookup", "in_search", "in_extract", "in_cover"}

SyncPcs == LongCallPcs \cup {"tag_load", "tag_save"}

Terminal(r) == pc[r] = "done"

\* The loop is held through a synchronous call and is free at an await.
Holder(r, p) == IF p \in SyncPcs THEN r ELSE NoReq

\* Continue at p; a handler that has returned or raised is terminal.
Jump(r, p, out) ==
    /\ pc' = [pc EXCEPT ![r] = p]
    /\ running' = Holder(r, p)
    /\ outcome' = IF p = "done" THEN [outcome EXCEPT ![r] = out] ELSE outcome
    /\ UNCHANGED pure

Happened(r, e) == events' = [events EXCEPT ![r][e] = TRUE]

Called(r, c) == calls' = [calls EXCEPT ![r][c] = @ + 1]

\* if metadata: (a non-empty dict)
HasMeta(r) == meta[r] # NoMeta

\* The title of the media source kept although metadata is given.
Display_media(r) == title[r]

\* title = metadata['title'] when metadata is given, else info['title'].
Display(r) == IF HasMeta(r) THEN meta[r].title ELSE title[r]

\* The status message a handler edits: get_spotify_info edits the one it
\* created (the request's first), download_from_youtube the one it created
\* (the request's latest).
EditStatus(r, i, txt) == status' = [status EXCEPT ![r][i] = txt]

(***************************************************************************)
(* Where an exception continues.                                           *)
(***************************************************************************)
\* A failed attempt that is made again.
DownloadExcept_retries == "in_extract"

\* except Exception of download_from_youtube: edit the status to an error.
DownloadExcept == "dl_edit_err"

\* A tagging error that reaches the except of download_from_youtube.
TagExcept_raises == "dl_edit_err"

\* except Exception of add_id3_tags: logged, the caller continues at the
\* status edit.
TagExcept == "dl_edit_ok"

\* except Exception of search_and_download_from_youtube.
SearchExcept == "sr_reply_err"

\* An error of get_spotify_info that is ignored: the search goes on.
SpotifyExcept_continues == "in_search"

\* except Exception of get_spotify_info.
SpotifyExcept == "sp_edit_err"

\* An exception leaving download_from_youtube: into the except of
\* search_and_download_from_youtube when called from there, else out of the
\* handler.
EscapeDownload(r) == IF HasMeta(r) THEN SearchExcept ELSE "done"

\* An empty result list that is not tested: the download is started.
EmptyEntriesNext_downloads == "dl_status"

\* if not entries: reply and return.
EmptyEntriesNext == "sr_reply_nomatch"

\* entries[0] is downloaded.
FoundEntriesNext == "dl_status"

\* A url that is looked up without the test for the track segment.
TrackUrlNext_unchecked(u) == "in_lookup"

\* if "/track/" in url: look the track up, else reject the url.
TrackUrlNext(u) == IF HasTrackSegment(u) THEN "in_lookup" ELSE "sp_edit_invalid"

\* The search started without the info message.
InfoNext_skipped(m) == "in_search"

\* reply_photo when there is a cover image, else edit the status message.
InfoNext(m) == IF m.cover THEN "sp_photo" ELSE "sp_edit_info"

\* Tagging attempted for every request.
RetrievedNext_tags(r) == "tag_load"

\* if metadata: add_id3_tags, else straight to the status edit.
RetrievedNext(r) == IF HasMeta(r) THEN "tag_load" ELSE "dl_edit_ok"

\* if 'cover_url' in metadata and metadata['cover_url']: fetch it.
TagLoadedNext(r) == IF meta[r].cover THEN "in_cover" ELSE "tag_save"

(***************************************************************************)
(* Entry handlers.                                                         *)
(***************************************************************************)
\* Positions of the words holding a video-host marker.
YoutubeWords(ws) == {i \in 1..Len(ws) : HasYoutube(ws[i])}

\* Positions of the words holding the catalog track-path marker.
SpotifyTrackWords(ws) == {i \in 1..Len(ws) : HasSpotifyTrack(ws[i])}

\* for word in words: the first word that passes the test.
First(ws, S) == ws[CHOOSE i \in S : \A j \in S : i <= j]

\* The flow a handler enters: download_from_youtube, get_spotify_info, or
\* none of them (a usage or validation reply).
FlowOf(p) ==
    IF p = "dl_status" THEN "video"
    ELSE IF p = "sp_status" THEN "catalog" ELSE "none"

Enter(r, p, u) ==
    /\ pc[r] = "new"
    /\ running = NoReq
    /\ Jump(r, p, "NONE")
    /\ url' = [url EXCEPT ![r] = u]
    /\ flow' = [flow EXCEPT ![r] = FlowOf(p)]
    /\ UNCHANGED <<meta, title, status, replies, photos, audios, files, wrote,
                   opened, calls, events>>

DownloadCommand(r) ==
    \E args \in ArgLists :
        IF args = <<>>
        THEN Enter(r, "dc_reply_nourl", NoUrl)
        ELSE IF HasYoutube(args[1])
             THEN Enter(r, "dl_status", args[1])
             ELSE Enter(r, "dc_reply_invalid", NoUrl)

SpotifyCommand(r) ==
    \E args \in ArgLists :
        IF args = <<>>
        THEN Enter(r, "sc_reply_nourl", NoUrl)
        ELSE IF HasSpotify(args[1])
             THEN Enter(r, "sp_status", args[1])
             ELSE Enter(r, "sc_reply_invalid", NoUrl)

\* The branch of handle_message taken for the words of a text, and the word
\* handed on.
Classify(words) ==
    IF YoutubeWords(words) # {}
    THEN [p |-> "dl_status", u |-> First(words, YoutubeWords(words))]
    ELSE IF SpotifyTrackWords(words) # {}
         THEN [p |-> "sp_status", u |-> First(words, SpotifyTrackWords(words))]
         ELSE [p |-> "hm_reply_hint", u |-> NoUrl]

HandleMessage(r) ==
    \E words \in Texts : Enter(r, Classify(words).p, Classify(words).u)

\* The reply_text of a usage hint or validation error ends the handler.
UsageReply(r) ==
    /\ pc[r] \in UsagePcs
    /\ running = NoReq
    /\ \E ok \in BOOLEAN :
        IF ok
        THEN /\ replies' = [replies EXCEPT ![r] = Append(@, Txt(pc[r]))]
             /\ Jump(r, "done", "REPLIED")
             /\ UNCHANGED events
        ELSE /\ Happened(r, "xportErr")
             /\ Jump(r, "done", "FAILED")
             /\ UNCHANGED replies
    /\ UNCHANGED <<url, flow, meta, title, status, photos, audios, files, wrote,
                   opened, calls>>

(***************************************************************************)
(* get_spotify_info                                                        *)
(***************************************************************************)
\* status_message = await reply_text("Fetching info from Spotify..."), then
\* the test for "/track/".  The reply is outside the try block.
SpStatus(r) ==
    /\ pc[r] = "sp_status"
    /\ running = NoReq
    /\ \E ok \in BOOLEAN :
        IF ok
        THEN /\ status' = [status EXCEPT ![r] = Append(@, Txt("fetching"))]
             /\ Jump(r, TrackUrlNext(url[r]), "FAILED")
             /\ UNCHANGED events
        ELSE /\ Happened(r, "xportErr")
             /\ Jump(r, "done", "FAILED")
             /\ UNCHANGED status
    /\ UNCHANGED <<url, flow, meta, title, replies, photos, audios, files, wrote,
                   opened, calls>>

\* track_info = spotify.track(track_id) and the reading of its fields.
Lookup(r) ==
    /\ pc[r] = "in_lookup"
    /\ running = r
    /\ Called(r, "lookup")
    /\ \/ \E m \in Metas :
            /\ meta' = [meta EXCEPT ![r] = m]
            /\ Jump(r, InfoNext(m), "FAILED")
            /\ UNCHANGED events
       \/ /\ Happened(r, "metaErr")
          /\ Jump(r, SpotifyExcept, "FAILED")
          /\ UNCHANGED meta
    /\ UNCHANGED <<url, flow, title, status, replies, photos, audios, files, wrote,
                   opened>>

\* await reply_photo(image_url, caption=info_message)
SpPhoto(r) ==
    /\ pc[r] = "sp_photo"
    /\ running = NoReq
    /\ \E ok \in BOOLEAN :
        IF ok
        THEN /\ photos' = [photos EXCEPT ![r] = @ + 1]
             /\ Jump(r, "in_search", "FAILED")
             /\ UNCHANGED events
        ELSE /\ Happened(r, "xportErr")
             /\ Jump(r, SpotifyExcept, "FAILED")
             /\ UNCHANGED photos
    /\ UNCHANGED <<url, flow, meta, title, status, replies, audios, files, wrote,
                   opened, calls>>

\* await status_message.edit_text(info_message)
SpEditInfo(r) ==
    /\ pc[r] = "sp_edit_info"
    /\ running = NoReq
    /\ \E ok \in BOOLEAN :
        IF ok
        THEN /\ EditStatus(r, 1, TxtTitle("info", meta[r].title))
             /\ Jump(r, "in_search", "FAILED")
             /\ UNCHANGED events
        ELSE /\ Happened(r, "xportErr")
             /\ Jump(r, SpotifyExcept, "FAILED")
             /\ UNCHANGED status
    /\ UNCHANGED <<url, flow, meta, title, replies, photos, audios, files, wrote,
                   opened, calls>>

\* await status_message.edit_text("Please provide a valid Spotify track URL.")
SpEditInvalid(r) ==
    /\ pc[r] = "sp_edit_invalid"
    /\ running = NoReq
    /\ \E ok \in BOOLEAN :
        IF ok
        THEN /\ EditStatus(r, 1, Txt("invalid_track"))
             /\ Jump(r, "done", "FAILED")
             /\ UNCHANGED events
        ELSE /\ Happened(r, "xportErr")
             /\ Jump(r, SpotifyExcept, "FAILED")
             /\ UNCHANGED status
    /\ UNCHANGED <<url, flow, meta, title, replies, photos, audios, files, wrote,
                   opened, calls>>

\* except: await status_message.edit_text("Error fetching Spotify info: ...")
SpEditErr(r) ==
    /\ pc[r] = "sp_edit_err"
    /\ running = NoReq
    /\ \E ok \in BOOLEAN :
        IF ok
        THEN /\ EditStatus(r, 1, Txt("err_spotify"))
             /\ UNCHANGED events
        ELSE /\ Happened(r, "xportErr")
             /\ UNCHANGED status
    /\ Jump(r, "done", "FAILED")
    /\ UNCHANGED <<url, flow, meta, title, replies, photos, audios, files, wrote,
                   opened, calls>>

(***************************************************************************)
(* search_and_download_from_youtube                                        *)
(***************************************************************************)
\* info = ydl.extract_info("ytsearch:...", download=False); entries
Search(r) ==
    /\ pc[r] = "in_search"
    /\ running = r
    /\ Called(r, "search")
    /\ \E res \in {"error", "empty", "found"} :
        CASE res = "error" -> /\ Happened(r, "searchErr")
                              /\ Jump(r, SearchExcept, "FAILED")
          [] res = "empty" -> /\ Happened(r, "searchEmpty")
                              /\ Jump(r, EmptyEntriesNext, "FAILED")
          [] res = "found" -> /\ UNCHANGED events
                              /\ Jump(r, FoundEntriesNext, "FAILED")
    /\ UNCHANGED <<url, flow, meta, title, status, replies, photos, audios, files,
                   wrote, opened>>

\* await reply_text("No matching tracks found on YouTube."); return
SrReplyNoMatch(r) ==
    /\ pc[r] = "sr_reply_nomatch"
    /\ running = NoReq
    /\ \E ok \in BOOLEAN :
        IF ok
        THEN /\ replies' = [replies EXCEPT ![r] = Append(@, Txt("nomatch"))]
             /\ Jump(r, "done", "FAILED")
             /\ UNCHANGED events
        ELSE /\ Happened(r, "xportErr")
             /\ Jump(r, SearchExcept, "FAILED")
             /\ UNCHANGED replies
    /\ UNCHANGED <<url, flow, meta, title, status, photos, audios, files, wrote,
                   opened, calls>>

\* except: await reply_text("Error downloading track: ...")
SrReplyErr(r) ==
    /\ pc[r] = "sr_reply_err"
    /\ running = NoReq
    /\ \E ok \in BOOLEAN :
        IF ok
        THEN /\ replies' = [replies EXCEPT ![r] = Append(@, Txt("err_track"))]
             /\ Jump(r, "done", "FAILED")
             /\ UNCHANGED events
        ELSE /\ Happened(r, "xportErr")
             /\ Jump(r, SpotifyExcept, "FAILED")
             /\ UNCHANGED replies
    /\ UNCHANGED <<url, flow, meta, title, status, photos, audios, files, wrote,
                   opened, calls>>

(***************************************************************************)
(* download_from_youtube and add_id3_tags                                  *)
(***************************************************************************)
\* status_message = await reply_text("Downloading audio from YouTube...").
\* The reply is outside the try block.
DlStatus(r) ==
    /\ pc[r] = "dl_status"
    /\ running = NoReq
    /\ \E ok \in BOOLEAN :
        IF ok
        THEN /\ status' = [status EXCEPT ![r] = Append(@, Txt("downloading"))]
             /\ Jump(r, "in_extract", "FAILED")
             /\ UNCHANGED events
        ELSE /\ Happened(r, "xportErr")
             /\ Jump(r, EscapeDownload(r), "FAILED")
             /\ UNCHANGED status
    /\ UNCHANGED <<url, flow, meta, title, replies, photos, audios, files, wrote,
                   opened, calls>>

\* info = ydl.extract_info(url, download=True): the engine writes the mp3 to
\* the path of outtmpl, replacing what is there.
Extract(r) ==
    /\ pc[r] = "in_extract"
    /\ running = r
    /\ Called(r, "extract")
    /\ \/ \E t \in MediaTitles :
            /\ title' = [title EXCEPT ![r] = t]
            /\ files' = [files EXCEPT ![OutPath(t)] = r]
            /\ wrote' = [wrote EXCEPT ![r] = OutPath(t)]
            /\ Jump(r, RetrievedNext(r), "FAILED")
            /\ UNCHANGED events
       \/ /\ Happened(r, "extractErr")
          /\ Jump(r, DownloadExcept, "FAILED")
          /\ UNCHANGED <<title, files, wrote>>
    /\ UNCHANGED <<url, flow, meta, status, replies, photos, audios, opened>>

\* audiofile = eyed3.load(file_path) and the basic tags.
TagLoad(r) ==
    /\ pc[r] = "tag_load"
    /\ running = r
    /\ Called(r, "tag")
    /\ \E ok \in BOOLEAN :
        IF ok /\ files[FilePath(title[r])] # NoReq
        THEN /\ Jump(r, TagLoadedNext(r), "FAILED")
             /\ UNCHANGED events
        ELSE /\ Happened(r, "tagErr")
             /\ Jump(r, TagExcept, "FAILED")
    /\ UNCHANGED <<url, flow, meta, title, status, replies, photos, audios, files,
                   wrote, opened>>

\* response = requests.get(metadata['cover_url']); a status other than 200
\* leaves the file without cover.
Cover(r) ==
    /\ pc[r] = "in_cover"
    /\ running = r
    /\ Called(r, "cover")
    /\ \E res \in {"200", "other", "error"} :
        IF res = "error"
        THEN /\ Happened(r, "tagErr")
             /\ Jump(r, TagExcept, "FAILED")
        ELSE /\ Jump(r, "tag_save", "FAILED")
             /\ UNCHANGED events
    /\ UNCHANGED <<url, flow, meta, title, status, replies, photos, audios, files,
                   wrote, opened>>

\* audiofile.tag.save()
TagSave(r) ==
    /\ pc[r] = "tag_save"
    /\ running = r
    /\ \E ok \in BOOLEAN :
        IF ok
        THEN /\ Jump(r, "dl_edit_ok", "FAILED")
             /\ UNCHANGED events
        ELSE /\ Happened(r, "tagErr")
             /\ Jump(r, TagExcept, "FAILED")
    /\ UNCHANGED <<url, flow, meta, title, status, replies, photos, audios, files,
                   wrote, opened, calls>>

\* await status_message.edit_text("Downloaded: {title}"), then
\* open(file_path, 'rb').
DlEditOk(r) ==
    /\ pc[r] = "dl_edit_ok"
    /\ running = NoReq
    /\ \E ok \in BOOLEAN :
        IF ok
        THEN /\ EditStatus(r, Len(status[r]), TxtTitle("success", Display(r)))
             /\ IF files[FilePath(title[r])] # NoReq
                THEN /\ opened' = [opened EXCEPT ![r] = files[FilePath(title[r])]]
                     /\ Jump(r, "dl_send", "FAILED")
                     /\ UNCHANGED events
                ELSE /\ Happened(r, "openErr")
                     /\ Jump(r, DownloadExcept, "FAILED")
                     /\ UNCHANGED opened
        ELSE /\ Happened(r, "xportErr")
             /\ Jump(r, DownloadExcept, "FAILED")
             /\ UNCHANGED <<status, opened>>
    /\ UNCHANGED <<url, flow, meta, title, replies, photos, audios, files, wrote,
                   calls>>

\* What os.remove(file_path) leaves of the download directory.
Removed(r) == [files EXCEPT ![FilePath(title[r])] = NoReq]

\* Where the handler goes after a successful send: os.remove, then return.
SentNext(r) == IF files[FilePath(title[r])] # NoReq THEN "done" ELSE DownloadExcept

\* A failed send that goes back to the status edit and is made again.
SendExcept_resends == "dl_edit_ok"

\* Where the handler goes when reply_audio raises.
SendExcept == DownloadExcept

\* await reply_audio(audio, title=title), then os.remove(file_path).
DlSend(r) ==
    /\ pc[r] = "dl_send"
    /\ running = NoReq
    /\ \E ok \in BOOLEAN :
        IF ok
        THEN /\ audios' = [audios EXCEPT ![r] =
                    Append(@, [title |-> Display(r), content |-> opened[r]])]
             /\ files' = Removed(r)
             /\ Jump(r, SentNext(r), "DELIVERED")
             /\ IF SentNext(r) = "done"
                THEN UNCHANGED events
                ELSE Happened(r, "removeErr")
        ELSE /\ Happened(r, "xportErr")
             /\ Jump(r, SendExcept, "FAILED")
             /\ UNCHANGED <<audios, files>>
    /\ UNCHANGED <<url, flow, meta, title, status, replies, photos, wrote, opened,
                   calls>>

\* except: await status_message.edit_text("Error downloading audio: ...")
DlEditErr(r) ==
    /\ pc[r] = "dl_edit_err"
    /\ running = NoReq
    /\ \E ok \in BOOLEAN :
        IF ok
        THEN /\ EditStatus(r, Len(status[r]), Txt("err_download"))
             /\ Jump(r, "done", "FAILED")
             /\ UNCHANGED events
        ELSE /\ Happened(r, "xportErr")
             /\ Jump(r, EscapeDownload(r), "FAILED")
             /\ UNCHANGED status
    /\ UNCHANGED <<url, flow, meta, title, replies, photos, audios, files, wrote,
                   opened, calls>>

(***************************************************************************)
(* The bot: every update is dispatched to its handler (main).              *)
(***************************************************************************)
\* One step of the handler of request r.
Step(r) ==
    \/ DownloadCommand(r)
    \/ SpotifyCommand(r)
    \/ HandleMessage(r)
    \/ UsageReply(r)
    \/ SpStatus(r)
    \/ Lookup(r)
    \/ SpPhoto(r)
    \/ SpEditInfo(r)
    \/ SpEditInvalid(r)
    \/ SpEditErr(r)
    \/ Search(r)
    \/ SrReplyNoMatch(r)
    \/ SrReplyErr(r)
    \/ DlStatus(r)
    \/ Extract(r)
    \/ TagLoad(r)
    \/ Cover(r)
    \/ TagSave(r)
    \/ DlEditOk(r)
    \/ DlSend(r)
    \/ DlEditErr(r)

Next == \E r \in Reqs : Step(r)

Spec == Init /\ [][Next]_vars

(***************************************************************************)
(* The classifier and the identifier extraction on their own inputs.       *)
(***************************************************************************)
InitPure ==
    /\ InitRequests
    /\ text \in Texts
    /\ locator = NoLocator
    /\ turl \in TrackUrls
    /\ track_id = NoTrackId

\* handle_message applied to text.
ClassifyText ==
    /\ locator = NoLocator
    /\ locator' = Classify(text)
    /\ UNCHANGED <<pc, running, url, meta, title, status, replies, photos,
                   audios, files, wrote, opened, calls, events, outcome, flow,
                   text, turl, track_id>>

\* The identifier extraction of get_spotify_info applied to the url of turl.
ExtractTrackId ==
    /\ track_id = NoTrackId
    /\ HasTrackSegment(BuildUrl(turl))
    /\ track_id' = TrackId(BuildUrl(turl))
    /\ UNCHANGED <<pc, running, url, meta, title, status, replies, photos,
                   audios, files, wrote, opened, calls, events, outcome, flow,
                   text, locator, turl>>

NextPure == ClassifyText \/ ExtractTrackId

SpecPure == InitPure /\ [][NextPure]_vars

\* The event loop runs every handler that can take a step; every external
\* call returns or raises.
SpecFair == Init /\ [][Next]_vars /\ \A r \in Reqs : WF_vars(Step(r))

(***************************************************************************)
(* Properties.                                                             *)
(***************************************************************************)
\* A step after the tagging failed: a transport call, the open or the remove.
LaterFailure(r) ==
    events[r].xportErr \/ events[r].openErr \/ events[r].removeErr

FailurePcs == {"dl_edit_err", "sr_reply_err", "sp_edit_err"}

InProgress == {"fetching", "downloading"}

\* A direct-video request whose retrieval succeeded.
DirectRetrieved(r) == ~HasMeta(r) /\ title[r] # NoTitle

\* C1: once a request that wrote an artifact is terminal, the file its
\* retrieval wrote is no longer in the download directory.
ArtifactRemovedAtTerminal ==
    \A r \in Reqs :
        Terminal(r) /\ wrote[r] # NoPath => files[wrote[r]] # r

\* C2: two requests in flight at the same time whose media have the same
\* title have written to different paths.
DistinctArtifactPaths ==
    \A a, b \in Reqs :
        /\ a # b
        /\ ~Terminal(a) /\ ~Terminal(b)
        /\ wrote[a] # NoPath /\ wrote[b] # NoPath
        /\ title[a] = title[b]
        => wrote[a] # wrote[b]

\* C3: the audio a request sends is the file its own retrieval produced, and
\* a file produced by a request that is not terminal is changed or removed
\* by that request only.
ArtifactOwnedByRequest ==
    [][ /\ \A r \in Reqs : \A i \in DOMAIN audios'[r] :
                audios'[r][i].content = r
        /\ \A p \in Paths :
                files[p] # NoReq /\ files'[p] # files[p]
                => pc'[files[p]] # pc[files[p]] \/ Terminal(files[p]) ]_vars

\* C4: a tagging error does not fail the request: after it the request is
\* on a failure path only when a later step (status edit, open, audio send,
\* remove) failed, and when none did the request ends delivered, its audio
\* sent once and its artifact removed.
TagFailureNeverFails ==
    \A r \in Reqs :
        events[r].tagErr =>
            /\ pc[r] \in FailurePcs \/ outcome[r] = "FAILED" => LaterFailure(r)
            /\ Terminal(r) /\ ~LaterFailure(r) =>
                    /\ outcome[r] = "DELIVERED"
                    /\ Len(audios[r]) = 1
                    /\ files[wrote[r]] # r

\* A request delivered after its tagging failed.
TagFailureDelivered ==
    \E r \in Reqs :
        /\ events[r].tagErr
        /\ outcome[r] = "DELIVERED"
        /\ Len(audios[r]) = 1
        /\ files[wrote[r]] = NoReq

\* C5: after an empty search result no retrieval is made and no file is
\* written; the request fails, and the user gets the "no matching tracks"
\* reply when the transport delivers it.
EmptySearchNoRetrieval ==
    \A r \in Reqs :
        events[r].searchEmpty =>
            /\ calls[r].extract = 0
            /\ wrote[r] = NoPath
            /\ audios[r] = <<>>
            /\ pc[r] \in {"sr_reply_nomatch", "sr_reply_err", "sp_edit_err", "done"}
            /\ Terminal(r) => outcome[r] = "FAILED"
            /\ Terminal(r) /\ ~events[r].xportErr => replies[r] = <<Txt("nomatch")>>

\* A request ended by the "no matching tracks" reply.
EmptySearchReported ==
    \E r \in Reqs :
        /\ events[r].searchEmpty
        /\ Terminal(r)
        /\ replies[r] = <<Txt("nomatch")>>
        /\ calls[r].search = 1

\* C6: a metadata error is followed by no search and no retrieval, a search
\* error by no retrieval, a retrieval error by no tagging and no audio send;
\* after any of them the request is on a failure path and ends FAILED.
FatalErrorSkipsStages ==
    \A r \in Reqs :
        /\ events[r].metaErr => calls[r].search = 0 /\ calls[r].extract = 0
        /\ events[r].searchErr => calls[r].extract = 0
        /\ events[r].extractErr => calls[r].tag = 0 /\ audios[r] = <<>>
        /\ events[r].metaErr \/ events[r].searchErr \/ events[r].extractErr =>
                /\ pc[r] \in FailurePcs \cup {"done"}
                /\ Terminal(r) => outcome[r] = "FAILED"

\* One request failed by a metadata error, another by a retrieval error.
FatalErrorsFailed ==
    \E a, b \in Reqs :
        /\ events[a].metaErr /\ Terminal(a) /\ calls[a].lookup = 1
        /\ events[b].extractErr /\ Terminal(b) /\ calls[b].extract = 1

\* C7: when a request whose transport calls all succeeded is terminal, none
\* of its status messages shows an in-progress text.
StatusShowsFinalOutcome ==
    \A r \in Reqs :
        Terminal(r) /\ ~events[r].xportErr =>
            \A i \in DOMAIN status[r] : status[r][i].k \notin InProgress

\* C8: a request creates at most one status message.
OneStatusMessage == \A r \in Reqs : Len(status[r]) <= 1

\* C9: a direct-video request whose retrieval and transport calls succeeded
\* ends delivered, its status showing the title, its audio sent once and its
\* artifact removed; no request sends its audio twice.
DirectVideoDelivered ==
    \A r \in Reqs :
        /\ Len(audios[r]) <= 1
        /\ Terminal(r) /\ DirectRetrieved(r) /\ ~events[r].xportErr =>
                /\ outcome[r] = "DELIVERED"
                /\ status[r] = <<TxtTitle("success", title[r])>>
                /\ Len(audios[r]) = 1
                /\ files[wrote[r]] # r

\* C10: while a request is inside a long-running external call, every other
\* request that is not terminal can take its next step.
LongCallBlocksOnlyItsRequest ==
    \A a, b \in Reqs :
        pc[a] \in LongCallPcs /\ b # a /\ ~Terminal(b) => ENABLED Step(b)

\* The words of text holding a video-host or a catalog track-path marker.
MarkerWords(ws) == YoutubeWords(ws) \cup SpotifyTrackWords(ws)

\* The request's argument was rejected as no catalog track url: by
\* spotify_command, or by get_spotify_info for want of a track segment.
NotTrackUrl(r) ==
    \/ pc[r] = "sc_reply_invalid"
    \/ \E i \in DOMAIN replies[r] : replies[r][i] = Txt("sc_reply_invalid")
    \/ flow[r] = "catalog" /\ ~HasTrackSegment(url[r])

\* C11: a catalog request whose url is no catalog track url makes no
\* metadata lookup, search, retrieval or cover fetch and performs no stage;
\* it ends with the validation notice when the transport delivers it.
NotTrackUrlRejected ==
    \A r \in Reqs :
        NotTrackUrl(r) =>
            /\ calls[r] = NoCalls
            /\ wrote[r] = NoPath /\ audios[r] = <<>> /\ photos[r] = 0
            /\ pc[r] \in {"sc_reply_invalid", "sp_status", "sp_edit_invalid",
                          "sp_edit_err", "done"}
            /\ Terminal(r) => outcome[r] # "DELIVERED"
            /\ Terminal(r) /\ ~events[r].xportErr =>
                    \/ replies[r] = <<Txt("sc_reply_invalid")>> /\ status[r] = <<>>
                    \/ status[r] = <<Txt("invalid_track")>> /\ replies[r] = <<>>

\* A request with a url without track segment ended by the validation notice.
NotTrackUrlNoticed ==
    \E r \in Reqs :
        /\ flow[r] = "catalog"
        /\ ~HasTrackSegment(url[r])
        /\ Terminal(r)
        /\ status[r] = <<Txt("invalid_track")>>

\* C12: the first word of a text that holds a video-host or a catalog
\* track-path marker decides the flow and is the word handed on; a text
\* without such a word gets the usage hint.
FirstMarkerWordDecides ==
    locator # NoLocator =>
        IF MarkerWords(text) = {}
        THEN locator = [p |-> "hm_reply_hint", u |-> NoUrl]
        ELSE /\ locator.u = First(text, MarkerWords(text))
             /\ locator.p = IF HasYoutube(First(text, MarkerWords(text)))
                            THEN "dl_status" ELSE "sp_status"

\* The stages a request has performed are in pipeline order.
StageOrder(r) ==
    /\ flow[r] = "video" =>
            /\ calls[r].lookup = 0 /\ calls[r].search = 0
            /\ calls[r].tag = 0 /\ calls[r].cover = 0
            /\ ~HasMeta(r)
    /\ flow[r] \in {"NONE", "none"} => calls[r] = NoCalls
    /\ calls[r].search > 0 \/ pc[r] = "in_search" =>
            calls[r].lookup = 1 /\ HasMeta(r) /\ ~events[r].metaErr
    /\ flow[r] = "catalog" /\ (calls[r].extract > 0 \/ pc[r] \in {"dl_status", "in_extract"}) =>
            /\ calls[r].search = 1
            /\ ~events[r].searchErr /\ ~events[r].searchEmpty
            /\ HasMeta(r)
    /\ calls[r].tag > 0 \/ pc[r] \in {"tag_load", "in_cover", "tag_save"} =>
            calls[r].extract = 1 /\ title[r] # NoTitle
    /\ audios[r] # <<>> => calls[r].extract = 1 /\ title[r] # NoTitle
    /\ outcome[r] \in {"DELIVERED", "FAILED", "REPLIED"} <=> Terminal(r)

\* C13: after every step the stages performed are in pipeline order (a
\* video request without lookup, search and tagging; a catalog retrieval
\* only after lookup and a search that found a candidate; tagging and
\* sending only after retrieval), and a terminal request changes no more.
StagesInOrder ==
    [][ \A r \in Reqs :
            /\ StageOrder(r)'
            /\ Terminal(r) =>
                    /\ pc'[r] = pc[r] /\ outcome'[r] = outcome[r]
                    /\ calls'[r] = calls[r] /\ status'[r] = status[r]
                    /\ replies'[r] = replies[r] /\ audios'[r] = audios[r]
                    /\ photos'[r] = photos[r] ]_vars

\* A catalog request delivered through every stage next to a delivered
\* video request.
BothFlowsDelivered ==
    \E a, b \in Reqs :
        /\ flow[a] = "catalog" /\ outcome[a] = "DELIVERED"
        /\ calls[a] = [lookup |-> 1, search |-> 1, extract |-> 1, tag |-> 1, cover |-> 1]
        /\ flow[b] = "video" /\ outcome[b] = "DELIVERED"
        /\ calls[b] = [lookup |-> 0, search |-> 0, extract |-> 1, tag |-> 0, cover |-> 0]

\* C14: when the search of a catalog request is started or made, the info
\* message has been emitted: as a photo when there is a cover, else as the
\* text of the request's first status message.
InfoBeforeAcquisition ==
    \A r \in Reqs :
        calls[r].search > 0 \/ calls[r].extract > 0 \/ pc[r] = "in_search" =>
            \/ flow[r] = "video"
            \/ /\ HasMeta(r)
               /\ IF meta[r].cover
                  THEN photos[r] = 1 /\ status[r][1] # TxtTitle("info", meta[r].title)
                  ELSE /\ photos[r] = 0
                       /\ status[r][1] \in {TxtTitle("info", meta[r].title),
                                            Txt("err_spotify")}

\* A searched request whose info went out as a photo, another whose info went
\* out as the status text.
InfoEmittedThenSearched ==
    \E a, b \in Reqs :
        /\ calls[a].search = 1 /\ meta[a].cover /\ photos[a] = 1
        /\ calls[b].search = 1 /\ ~meta[b].cover
        /\ status[b][1] = TxtTitle("info", meta[b].title)

\* C15: a request makes each of the metadata lookup, the search, the
\* retrieval and the cover fetch at most once, and a failed retrieval puts
\* it on the failure path.
NothingRetried ==
    \A r \in Reqs :
        /\ calls[r].lookup <= 1 /\ calls[r].search <= 1
        /\ calls[r].extract <= 1 /\ calls[r].cover <= 1
        /\ events[r].extractErr =>
                /\ pc[r] \in FailurePcs \cup {"done"}
                /\ Terminal(r) => outcome[r] = "FAILED"

\* A request ended by its one failed retrieval.
RetrievalFailedOnce ==
    \E r \in Reqs :
        /\ events[r].extractErr
        /\ calls[r].extract = 1
        /\ outcome[r] = "FAILED"

\* The title of the catalog record for a catalog request, the title of the
\* media source for a video request.
ExpectedTitle(r) == IF flow[r] = "catalog" THEN meta[r].title ELSE title[r]

\* C16: the success notice and the audio attachment carry the metadata's
\* title when metadata is present, else the title of the media source.
DisplayTitleFromMetadata ==
    \A r \in Reqs :
        /\ \A i \in DOMAIN audios[r] : audios[r][i].title = ExpectedTitle(r)
        /\ \A i \in DOMAIN status[r] :
                status[r][i].k = "success" => status[r][i].t = ExpectedTitle(r)

\* A catalog request delivered under the catalog title after its tagging
\* failed, next to a video request delivered under the media title.
TitlesDelivered ==
    \E a, b \in Reqs :
        /\ flow[a] = "catalog" /\ events[a].tagErr
        /\ audios[a] = <<[title |-> meta[a].title, content |-> opened[a]]>>
        /\ meta[a].title # title[a]
        /\ flow[b] = "video"
        /\ audios[b] = <<[title |-> title[b], content |-> opened[b]]>>

\* C17: the identifier extracted from base + "/track/" + id + tail is id.
TrackIdIsPathSegment ==
    track_id # NoTrackId => track_id = turl.id

\* C18: a terminal request shows the success notice only if its audio was
\* sent and an error notice only if it was not.
NoticeAgreesWithDelivery ==
    \A r \in Reqs :
        Terminal(r) =>
            /\ \A i \in DOMAIN status[r] :
                    /\ status[r][i].k = "success" => audios[r] # <<>>
                    /\ status[r][i].k \in {"err_download", "err_spotify"} =>
                            audios[r] = <<>>
            /\ \A i \in DOMAIN replies[r] :
                    replies[r][i].k = "err_track" => audios[r] = <<>>

\* C19: every request reaches a terminal state.
EveryRequestTerminates == \A r \in Reqs : <>Terminal(r)

\* All requests terminal, one of them through the whole catalog pipeline.
AllTerminal ==
    /\ \A r \in Reqs : Terminal(r)
    /\ \E r \in Reqs : outcome[r] = "DELIVERED" /\ calls[r].tag = 1

====
